---- MODULE Spec2Model ----
(***************************************************************************)
(* Change scheduler and sync pipeline of GiteaAutoSync (src/index.js).     *)
(*                                                                         *)
(* Node runs one event loop.  A step of this model is one macro-task       *)
(* together with the micro-tasks it releases: the arrival of a watcher     *)
(* event, the expiry of a timer, or the completion of an external command  *)
(* (git, readdir, HTTP).  Everything the code does between two awaits on   *)
(* external work is inside one step.                                       *)
(***************************************************************************)
EXTENDS Integers, Sequences, FiniteSets, TLC

\* ------------------------------------------------------------------ bounds
MaxEvents == 2      \* qualifying watcher events delivered in one run
MaxTriggers == 2    \* full-sweep triggers after startup (interval, config change)

\* ------------------------------------------------------- the file system
\* CONFIG.projectRoots, in order, and the directories found in each root.
Roots == <<"r1", "r2">>

DirsOf(root) == IF root = "r1" THEN <<"a", "b">> ELSE <<"c">>

Projects == {"a", "b", "c"}

\* simple variant: CONFIG.debounceMs in ticks of the clock, and the value
\* of a Project without an entry in pendingSyncs
DebounceTicks == 2

NoTimer == -1

\* simple variant: the syncProject calls on one Project that are followed
MaxSyncing == 2

\* the Projects that watcher events are drawn from
EventProjects == {"a", "b"}

ReaddirResults == {"ok", "enoent", "error"}

SyncOutcomes == {"ok", "fail"}

VARIABLES
  phase,            \* main(): "init", "startup", "watch", "exited"
  ops,              \* quickSyncChain: the quick-sync operations in arrival order
  pendingProjects,  \* the Pending Set, in insertion order (a JS Set iterates so)
  flushTimer,       \* TRUE iff the debounce timer is armed
  queueProcessing,  \* the drain guard
  drains,           \* active drain loops, each suspended in syncProject(drains[k])
  fullSyncPromise,  \* 0 (null) or the id of the sweep the promise stands for
  sweeps,           \* every sweep started so far, active or settled
  calls,            \* every call of runFullSync: by main or not, which sweep it awaits
  reloading,        \* handlers of an ignore-config change that are still reloading
  triggers,         \* number of full-sweep triggers used
  expiries,         \* number of debounce-timer expiries so far
  passes,           \* per Project: syncProject passes started by the drain
  abandoned,        \* Projects left in the Pending Set by a drain loop that ended
  skipped,          \* Projects a sweep had discovered and never passed to syncProject
  unlisted,         \* roots a sweep never enumerated because it ended early
  config,           \* the environment: is GITEA_TOKEN set, is GITEA_BASE_URL set
  timers,           \* number of setTimeout timers that are armed
  fresh,            \* pending Projects marked since the timer armed last expired
  pushPc,           \* pushChanges: the await it is suspended at
  pruneAfter,       \* pushChanges: the pruneAfter option of the call
  branch,           \* pushChanges: const branch
  hasUpstream,      \* pushChanges: const hasUpstream
  tracking,         \* the current branch tracks an upstream branch
  ahead,            \* the local branch holds a commit the remote branch lacks
  gitLog,           \* the git commands run so far, with their results
  pushErr,          \* the message of the error pushChanges has thrown, {} if none
  pruneAgeDays,     \* CONFIG.pruneAgeDays
  syncKind,         \* the pass on the observed Project: "none", "full", "quick"
  syncPc,           \* position of syncProject / syncSinglePath
  apiLog,           \* the requests sent to the Gitea API, with their answers
  gitDirs,          \* depths below the Project root at which a .git directory exists
  removed,          \* depths of the .git directories a pass has deleted
  gitignoreFile,    \* the Project's .gitignore: "none", "user" (present before
                    \* the pass) or "default" (written by the pass)
  indexDiffers,     \* the index differs from HEAD after the staging of the pass
  index,            \* the paths whose staged content differs from HEAD
  committed,        \* the paths of the commit the pass has made
  event,            \* the chokidar event of the quick-sync
  projectRoots,     \* CONFIG.projectRoots, paths as sequences of characters
  cachedIgnorePatterns, \* the pattern list getIgnorePatterns loaded last
  watcherPatterns,  \* `patterns` of the closure given to chokidar as `ignored`
  gitignoreFilters, \* projectPath -> filter of its .gitignore
  watchPc,          \* "boot", "loaded" (patterns read), "watching"
  reloaded,         \* the watcher has handled a change of the pattern file
  lastPath,         \* path of the last filesystem event chokidar saw
  lastIgnored,      \* what the ignore predicate answered for it
  lastProject,      \* what resolveProjectFromPath returned for it
  lastCalls,        \* the functions handleWatchEvent went on to call for it
  loads,            \* the calls of loadGitignoreFilters: the await each is at
  pendingSyncs,     \* simple variant: projectPath -> time left on its timer
  syncing           \* simple variant: projectPath -> syncProject calls under way

vars == <<phase, ops, pendingProjects, flushTimer, queueProcessing, drains,
          fullSyncPromise, sweeps, calls, reloading, triggers, expiries,
          passes, abandoned, skipped, unlisted, config, timers, fresh,
          pushPc, pruneAfter, branch, hasUpstream, tracking, ahead, gitLog, pushErr,
          pruneAgeDays,
          syncKind, syncPc, apiLog, gitDirs, removed, gitignoreFile, indexDiffers, event,
          index, committed,
          projectRoots, cachedIgnorePatterns, watcherPatterns, gitignoreFilters,
          watchPc, reloaded, lastPath, lastIgnored, lastProject, lastCalls, loads,
          pendingSyncs, syncing>>

\* the state of the simple variant
simpleVars == <<pendingSyncs, syncing>>

watchVars == <<projectRoots, cachedIgnorePatterns, watcherPatterns, gitignoreFilters,
               watchPc, reloaded, lastPath, lastIgnored, lastProject, lastCalls, loads,
               simpleVars>>

pipeVars == <<syncKind, syncPc, apiLog, gitDirs, removed, gitignoreFile, indexDiffers,
              event, index, committed>>

pushVars == <<pushPc, pruneAfter, branch, hasUpstream, tracking, ahead, gitLog, pushErr,
              pruneAgeDays>>

schedulerVars == <<phase, ops, pendingProjects, flushTimer, queueProcessing, drains,
                   fullSyncPromise, sweeps, calls, reloading, triggers, expiries,
                   passes, abandoned, skipped, unlisted, config, timers, fresh>>

chainVars == <<ops, expiries>>

drainVars == <<pendingProjects, flushTimer, queueProcessing, drains, passes, abandoned,
               timers, fresh>>

sweepVars == <<phase, fullSyncPromise, sweeps, calls, skipped, unlisted, config>>

\* ----------------------------------------------------------------- helpers
Min(S) == CHOOSE x \in S : \A y \in S : x <= y

Range(s) == {s[i] : i \in DOMAIN s}

RemoveAt(s, k) == SubSeq(s, 1, k - 1) \o SubSeq(s, k + 1, Len(s))

\* ------------------------------------------------------------------ paths
\* A path, a pattern and a file name are sequences of one-character strings.
Text ==
  [ r |-> <<"r">>, r2 |-> <<"r", "2">>, n |-> <<"n">>, a |-> <<"a">>,
    f |-> <<"f">>, d |-> <<"d">>, c |-> <<"c">>,
    git |-> <<".", "g", "i", "t">>,
    gitignore |-> <<".", "g", "i", "t", "i", "g", "n", "o", "r", "e">>,
    hidden |-> <<".", "h">>, env |-> <<".", "e">>, log |-> <<"x", ".", "l">>,
    dot |-> <<".">>, dotdot |-> <<".", ".">> ]

\* path.sep
Sep == "/"

Null == <<>>

startsWith(s, prefix) ==
  Len(prefix) <= Len(s) /\ SubSeq(s, 1, Len(prefix)) = prefix

\* s.split('/')
RECURSIVE Split(_)
Split(s) ==
  LET cut == {i \in DOMAIN s : s[i] = Sep}
  IN  IF cut = {} THEN <<s>>
      ELSE <<SubSeq(s, 1, Min(cut) - 1)>> \o Split(SubSeq(s, Min(cut) + 1, Len(s)))

\* segments.filter(Boolean)
RECURSIVE FilterBoolean(_)
FilterBoolean(segs) ==
  IF segs = <<>> THEN <<>>
  ELSE (IF Head(segs) = <<>> THEN <<>> ELSE <<Head(segs)>>) \o FilterBoolean(Tail(segs))

\* normalisation of the segments of an absolute path: empty and '.'
\* segments go, '..' removes the segment before it
RECURSIVE Normalize(_, _)
Normalize(done, segs) ==
  IF segs = <<>> THEN done
  ELSE IF Head(segs) \in {<<>>, Text.dot} THEN Normalize(done, Tail(segs))
  ELSE IF Head(segs) = Text.dotdot
       THEN Normalize(SubSeq(done, 1, Len(done) - 1), Tail(segs))
  ELSE Normalize(Append(done, Head(segs)), Tail(segs))

\* segments joined by the separator
RECURSIVE JoinSep(_)
JoinSep(segs) ==
  IF segs = <<>> THEN <<>>
  ELSE IF Len(segs) = 1 THEN Head(segs)
  ELSE Head(segs) \o <<Sep>> \o JoinSep(Tail(segs))

\* the absolute path of a list of segments
Join(segs) == <<Sep>> \o JoinSep(segs)

\* path.resolve(p) of an absolute path
resolve(p) == Join(Normalize(<<>>, Split(p)))

\* path.join(a, b)
pathJoin(a, b) == resolve(a \o <<Sep>> \o b)

\* length of the longest common prefix of two segment lists
RECURSIVE Common(_, _)
Common(x, y) ==
  IF x = <<>> \/ y = <<>> \/ Head(x) # Head(y) THEN 0
  ELSE 1 + Common(Tail(x), Tail(y))

\* path.relative(from, to)
relative(from, to) ==
  LET x == Normalize(<<>>, Split(from))
      y == Normalize(<<>>, Split(to))
      k == Common(x, y)
  IN  JoinSep([i \in 1..(Len(x) - k) |-> Text.dotdot] \o SubSeq(y, k + 1, Len(y)))

\* path.basename(p)
basename(p) == LET segs == Split(p) IN segs[Len(segs)]

\* process.env as main() finds it
Configs == [token : BOOLEAN, baseUrl : BOOLEAN]

ValidConfig == [token |-> TRUE, baseUrl |-> TRUE]

\* CONFIG.projectRoots: resolved, distinct paths, the primary root first.
\* Two sibling roots of which one's name begins with the other's, roots
\* nested either way round, the filesystem root, and a root whose own name
\* is the name of an ignored directory.
RootSegments ==
  { << <<Text.r>> >>,
    << <<Text.d>> >>,
    << <<Text.r>>, <<Text.r2>> >>,
    << <<Text.r>>, <<Text.r, Text.n>> >>,
    << <<Text.r, Text.n>>, <<Text.r>> >>,
    << <<>>, <<Text.r>> >> }

RootSets == { [i \in DOMAIN rs |-> Join(rs[i])] : rs \in RootSegments }

DefaultRoots == <<Join(<<Text.r>>), Join(<<Text.r2>>)>>

InitWith(cfg, roots) ==
  /\ config = cfg
  /\ projectRoots = roots
  /\ cachedIgnorePatterns = <<>>
  /\ watcherPatterns = <<>>
  /\ gitignoreFilters = {}
  /\ watchPc = "boot"
  /\ reloaded = FALSE
  /\ lastPath = Null
  /\ lastIgnored = FALSE
  /\ lastProject = Null
  /\ lastCalls = <<>>
  /\ loads = <<>>
  /\ pendingSyncs = [p \in Projects |-> NoTimer]
  /\ syncing = [p \in Projects |-> 0]
  /\ timers = 0
  /\ fresh = {}
  /\ phase = "init"
  /\ ops = <<>>
  /\ pendingProjects = <<>>
  /\ flushTimer = FALSE
  /\ queueProcessing = FALSE
  /\ drains = <<>>
  /\ fullSyncPromise = 0
  /\ sweeps = <<>>
  /\ calls = <<>>
  /\ reloading = 0
  /\ triggers = 0
  /\ expiries = 0
  /\ passes = [p \in Projects |-> 0]
  /\ abandoned = {}
  /\ skipped = {}
  /\ unlisted = {}
  /\ pushPc = "idle"
  /\ pruneAfter = FALSE
  /\ branch = ""
  /\ hasUpstream = FALSE
  /\ tracking = FALSE
  /\ ahead = FALSE
  /\ gitLog = <<>>
  /\ pushErr = {}
  /\ pruneAgeDays = 0
  /\ syncKind = "none"
  /\ syncPc = "idle"
  /\ apiLog = <<>>
  /\ gitDirs = {}
  /\ removed = {}
  /\ gitignoreFile = "none"
  /\ indexDiffers = FALSE
  /\ index = {}
  /\ committed = {}
  /\ event = "none"

Init == InitWith(ValidConfig, DefaultRoots)

\* the process started in any environment
BootInit == \E cfg \in Configs : InitWith(cfg, DefaultRoots)

\* the process started with any of the root configurations
WatchInit == \E roots \in RootSets : InitWith(ValidConfig, roots)

\* ------------------------------------------------------- quick-sync chain
\* quickSyncChain.then(...) runs the callback once the chain promise, that is
\* every operation appended before, has settled.
ChainReadyUnchained(o, i) == TRUE

ChainReadyOnStart(o, i) == \A j \in 1..(i - 1) : o[j].st # "queued"

ChainReady(o, i) == \A j \in 1..(i - 1) : o[j].st = "settled"

ChainAfterUncaught(outcome) == IF outcome = "fail" THEN "rejected" ELSE "settled"

\* .then(() => syncSinglePath(...)).catch(log): the promise the next
\* operation is chained on is fulfilled whatever syncSinglePath ended with
ChainAfter(outcome) == "settled"

\* The operation appended by queueQuickSync for one event.  early: the event
\* path is the Project directory itself, so syncSinglePath returns before its
\* first await (read when the operation begins, FALSE from then on).  win: the
\* number of timer expiries seen when the event arrived.
queueQuickSync(o, p, early, win) ==
  Append(o, [proj |-> p, early |-> early, st |-> "queued", win |-> win])

\* Run the micro-tasks of the chain: every operation whose turn has come
\* begins; one that returns without awaiting settles at once, and its handler
\* goes on to scheduleProject (the Projects to schedule are collected in sched).
RECURSIVE runChain(_, _)
runChain(o, sched) ==
  LET cand == {i \in DOMAIN o : o[i].st = "queued" /\ ChainReady(o, i)}
  IN  IF cand = {} THEN [ops |-> o, sched |-> sched]
      ELSE LET i == Min(cand)
           IN  IF o[i].early
               THEN runChain([o EXCEPT ![i].st = "settled", ![i].early = FALSE],
                             Append(sched, o[i].proj))
               ELSE runChain([o EXCEPT ![i].st = "running"], sched)

clearTimeoutMissing(n, handle) == n

\* if (flushTimer) clearTimeout(flushTimer): the armed timers left
clearTimeout(n, handle) == IF handle THEN n - 1 ELSE n

armTimersNever(n, handle, k) == n

\* the armed timers after k calls of scheduleProject, each of which cancels
\* the timer flushTimer refers to and arms a new one
RECURSIVE armTimers(_, _, _)
armTimers(n, handle, k) ==
  IF k = 0 THEN n ELSE armTimers(clearTimeout(n, handle) + 1, TRUE, k - 1)

\* pendingProjects.add(projectPath)
scheduleProject(pend, p) == IF p \in Range(pend) THEN pend ELSE Append(pend, p)

RECURSIVE scheduleAll(_, _)
scheduleAll(pend, sched) ==
  IF sched = <<>> THEN pend
  ELSE scheduleAll(scheduleProject(pend, Head(sched)), Tail(sched))

\* A qualifying event of Project p reaches handleWatchEvent.
WatchEvent(p, early) ==
  /\ phase = "watch"
  /\ Len(ops) < MaxEvents
  /\ LET r == runChain(queueQuickSync(ops, p, early, expiries), <<>>)
     IN  /\ ops' = r.ops
         /\ pendingProjects' = scheduleAll(pendingProjects, r.sched)
         /\ flushTimer' = (flushTimer \/ r.sched # <<>>)
         /\ timers' = armTimers(timers, flushTimer, Len(r.sched))
         /\ fresh' = fresh \cup Range(r.sched)
  /\ UNCHANGED <<queueProcessing, drains, passes, abandoned, expiries>>
  /\ UNCHANGED <<sweepVars, reloading, triggers, pushVars, pipeVars, watchVars>>

\* The running quick-sync i settles (its errors are caught and logged); its
\* handler resumes after `await queueQuickSync` and calls scheduleProject, and
\* the next operation of the chain begins.
QuickSyncSettle(i, outcome) ==
  /\ i \in DOMAIN ops
  /\ ops[i].st = "running"
  /\ LET st == ChainAfter(outcome)
         r == runChain([ops EXCEPT ![i].st = st],
                       IF st = "settled" THEN <<ops[i].proj>> ELSE <<>>)
     IN  /\ ops' = r.ops
         /\ pendingProjects' = scheduleAll(pendingProjects, r.sched)
         /\ flushTimer' = (flushTimer \/ r.sched # <<>>)
         /\ timers' = armTimers(timers, flushTimer, Len(r.sched))
         /\ fresh' = fresh \cup Range(r.sched)
  /\ UNCHANGED <<queueProcessing, drains, passes, abandoned, expiries>>
  /\ UNCHANGED <<sweepVars, reloading, triggers, pushVars, pipeVars, watchVars>>

\* --------------------------------------------------- pending-set drain
\* if (queueProcessing) return;
ProcessQueueGuardOff(qp) == FALSE

ProcessQueueGuard(qp) == qp

\* while (pendingProjects.size > 0), evaluated after a syncProject settled
DrainLoopOnce(pend) == FALSE

DrainLoopAgain(pend) == pend # <<>>

\* syncProject(...).catch(log): the loop goes on whatever the outcome
LoopAfterSyncUncaught(outcome) == IF outcome = "fail" THEN "abort" ELSE "continue"

LoopAfterSync(outcome) == "continue"

\* An armed timer expires (the oldest, all have the same delay):
\* flushTimer = null; processQueue().  The delay of every mark has elapsed
\* when the expiring timer is the one armed last.
TimerFire ==
  /\ timers > 0
  /\ timers' = timers - 1
  /\ flushTimer' = FALSE
  /\ expiries' = expiries + 1
  /\ fresh' = IF timers = 1 THEN {} ELSE fresh
  /\ IF ProcessQueueGuard(queueProcessing)
     THEN UNCHANGED <<pendingProjects, queueProcessing, drains, passes>>
     ELSE IF pendingProjects = <<>>
          THEN /\ queueProcessing' = FALSE
               /\ UNCHANGED <<pendingProjects, drains, passes>>
          ELSE /\ queueProcessing' = TRUE
               /\ drains' = Append(drains, Head(pendingProjects))
               /\ pendingProjects' = Tail(pendingProjects)
               /\ passes' = [passes EXCEPT ![Head(pendingProjects)] = @ + 1]
  /\ UNCHANGED <<ops, abandoned, sweepVars, reloading, triggers, pushVars, pipeVars, watchVars>>

\* The syncProject call of drain loop k settles; the loop takes the next
\* pending Project or ends (finally: queueProcessing = false).
DrainSyncSettle(k, outcome) ==
  /\ k \in DOMAIN drains
  /\ IF LoopAfterSync(outcome) = "continue" /\ DrainLoopAgain(pendingProjects)
     THEN /\ drains' = [drains EXCEPT ![k] = Head(pendingProjects)]
          /\ pendingProjects' = Tail(pendingProjects)
          /\ passes' = [passes EXCEPT ![Head(pendingProjects)] = @ + 1]
          /\ fresh' = fresh \ {Head(pendingProjects)}
          /\ UNCHANGED <<queueProcessing, abandoned>>
     ELSE /\ drains' = RemoveAt(drains, k)
          /\ queueProcessing' = FALSE
          /\ abandoned' = abandoned \cup Range(pendingProjects)
          /\ UNCHANGED <<pendingProjects, passes, fresh>>
  /\ UNCHANGED <<flushTimer, timers, chainVars, sweepVars, reloading, triggers, pushVars, pipeVars, watchVars>>

\* ------------------------------------------------------------ full sweep
\* if (fullSyncPromise) return fullSyncPromise;
FullSyncGuardOff(fsp) == FALSE

FullSyncGuard(fsp) == fsp # 0

\* A sweep suspended in discoverProjectDirectories(Roots[r]).
Discovering(r) == [st |-> "discover", root |-> r, todo |-> <<>>, failed |-> FALSE]

\* The for-loops of the sweep after root r returned the list todo (or what is
\* left of it): sync its head, else enumerate the next root, else resolve.
SweepStep(r, todo, failed) ==
  IF todo # <<>> THEN [st |-> "sync", root |-> r, todo |-> todo, failed |-> failed]
  ELSE IF r < Len(Roots) THEN [Discovering(r + 1) EXCEPT !.failed = failed]
  ELSE [st |-> "resolved", root |-> 0, todo |-> <<>>, failed |-> FALSE]

Rejected == [st |-> "rejected", root |-> 0, todo |-> <<>>, failed |-> FALSE]

SweepActive(s) == s \in DOMAIN sweeps /\ sweeps[s].st \in {"discover", "sync"}

SweepSettled(s) == s \in DOMAIN sweeps /\ sweeps[s].st \in {"resolved", "rejected"}

\* runFullSync() called by main (awaited, a rejection ends the process) or by
\* the interval timer or the config handler (rejections are caught and logged).
runFullSync(main) ==
  IF FullSyncGuard(fullSyncPromise)
  THEN /\ calls' = Append(calls, [main |-> main, sweep |-> fullSyncPromise, settled |-> FALSE])
       /\ UNCHANGED <<fullSyncPromise, sweeps>>
  ELSE /\ sweeps' = Append(sweeps, Discovering(1))
       /\ fullSyncPromise' = Len(sweeps) + 1
       /\ calls' = Append(calls, [main |-> main, sweep |-> Len(sweeps) + 1, settled |-> FALSE])

ReleaseOnSuccess(st, fsp) == IF st = "resolved" THEN 0 ELSE fsp

\* try { await fullSyncPromise; } finally { fullSyncPromise = null; }
Release(st, fsp) == 0

\* Sweep s takes the step rec.  When rec is a settled record the promise
\* settles: finally { fullSyncPromise = null }, every caller awaiting it
\* settles, and main() goes on to watch or exits through main().catch.
SweepMove(s, rec) ==
  /\ sweeps' = [sweeps EXCEPT ![s] = rec]
  /\ IF rec.st \in {"resolved", "rejected"}
     THEN /\ fullSyncPromise' = Release(rec.st, fullSyncPromise)
          /\ calls' = [c \in DOMAIN calls |->
                         IF calls[c].sweep = s THEN [calls[c] EXCEPT !.settled = TRUE]
                         ELSE calls[c]]
          /\ phase' = IF \E c \in DOMAIN calls : calls[c].sweep = s /\ calls[c].main
                      THEN (IF rec.st = "resolved" THEN "watch" ELSE "exited")
                      ELSE phase
     ELSE UNCHANGED <<fullSyncPromise, calls, phase>>

\* if (!CONFIG.token) process.exit(1)
validateConfig(cfg) == cfg.token

\* process.env.GITEA_BASE_URL || 'https://gitea.example.com'
getBaseUrl(cfg) == IF cfg.baseUrl THEN "GITEA_BASE_URL" ELSE "https://gitea.example.com"

\* main(): validateConfig, askpass script, ignore patterns, roots, then
\* `await runFullSync()`.
Main ==
  /\ phase = "init"
  /\ IF validateConfig(config)
     THEN phase' = "startup" /\ runFullSync(TRUE)
     ELSE phase' = "exited" /\ UNCHANGED <<fullSyncPromise, sweeps, calls>>
  /\ UNCHANGED <<config, chainVars, drainVars, skipped, unlisted, reloading, triggers, pushVars, pipeVars, watchVars>>

\* setInterval callback
IntervalTick ==
  /\ phase = "watch"
  /\ triggers < MaxTriggers
  /\ triggers' = triggers + 1
  /\ runFullSync(FALSE)
  /\ UNCHANGED <<phase, config, chainVars, drainVars, skipped, unlisted, reloading, pushVars, pipeVars, watchVars>>

\* handleWatchEvent for the ignore-configuration file: the handler starts
\* reloading (getIgnorePatterns, loadGitignoreFilters) ...
ConfigEvent ==
  /\ phase = "watch"
  /\ triggers < MaxTriggers
  /\ triggers' = triggers + 1
  /\ reloading' = reloading + 1
  /\ UNCHANGED <<chainVars, drainVars, sweepVars, pushVars, pipeVars, watchVars>>

ConfigBranchFallsThrough(pend) == scheduleProject(pend, "a")

\* the configuration branch ends in `return`: the handler does not reach
\* queueQuickSync and scheduleProject
ConfigBranchReturn(pend) == pend

\* ... and, the reload done, calls runFullSync() without awaiting it.
ConfigReloaded ==
  /\ phase = "watch"
  /\ reloading > 0
  /\ reloading' = reloading - 1
  /\ runFullSync(FALSE)
  /\ pendingProjects' = ConfigBranchReturn(pendingProjects)
  /\ UNCHANGED <<flushTimer, queueProcessing, drains, passes, abandoned, timers, fresh>>
  /\ UNCHANGED <<phase, config, chainVars, skipped, unlisted, triggers, pushVars, pipeVars, watchVars>>

\* The readdir of sweep s returns.  ENOENT is an empty list; any other error
\* is thrown out of the sweep, whose remaining roots are never enumerated.
SweepDiscover(s, res) ==
  /\ phase # "exited"
  /\ SweepActive(s)
  /\ sweeps[s].st = "discover"
  /\ LET r == sweeps[s].root
     IN  IF res = "error"
         THEN /\ SweepMove(s, Rejected)
              /\ unlisted' = unlisted \cup {Roots[j] : j \in (r + 1)..Len(Roots)}
         ELSE /\ SweepMove(s, SweepStep(r, IF res = "ok" THEN DirsOf(Roots[r]) ELSE <<>>,
                                        sweeps[s].failed))
              /\ UNCHANGED unlisted
  /\ UNCHANGED <<config, chainVars, drainVars, skipped, reloading, triggers, pushVars, pipeVars, watchVars>>

\* The syncProject call of sweep s settles; its error, if any, is caught and
\* logged and the loop goes on.
SweepSyncSettle(s, outcome) ==
  /\ phase # "exited"
  /\ SweepActive(s)
  /\ sweeps[s].st = "sync"
  /\ LET r == sweeps[s].root
         todo == sweeps[s].todo
         failed == sweeps[s].failed \/ outcome = "fail"
     IN  IF LoopAfterSync(outcome) = "continue"
         THEN /\ SweepMove(s, SweepStep(r, Tail(todo), failed))
              /\ UNCHANGED <<skipped, unlisted>>
         ELSE /\ SweepMove(s, Rejected)
              /\ skipped' = skipped \cup Range(Tail(todo))
              /\ unlisted' = unlisted \cup {Roots[j] : j \in (r + 1)..Len(Roots)}
  /\ UNCHANGED <<config, chainVars, drainVars, reloading, triggers, pushVars, pipeVars, watchVars>>

Next ==
  \/ Main
  \/ \E p \in EventProjects, early \in BOOLEAN : WatchEvent(p, early)
  \/ \E i \in 1..MaxEvents, outcome \in SyncOutcomes : QuickSyncSettle(i, outcome)
  \/ TimerFire
  \/ \E k \in 1..MaxEvents, outcome \in SyncOutcomes : DrainSyncSettle(k, outcome)
  \/ IntervalTick
  \/ ConfigEvent
  \/ ConfigReloaded
  \/ \E s \in 1..(MaxTriggers + 1), res \in ReaddirResults : SweepDiscover(s, res)
  \/ \E s \in 1..(MaxTriggers + 1), outcome \in SyncOutcomes : SweepSyncSettle(s, outcome)

Spec == Init /\ [][Next]_vars

\* the same process, started in any environment
BootSpec == BootInit /\ [][Next]_vars

\* ------------------------------------------------------------ pushChanges
REMOTE_NAME == "gitea"

\* The text of a git error, as the set of the phrases that occur in it.
\* What git writes when it rejects a push because the remote is ahead, when a
\* hook declines it, when the credentials are refused, when the host is
\* unreachable, and when a fetch cannot fast-forward a ref.
Messages ==
  { {"rejected", "non-fast-forward", "failed to push",
     "tip of your current branch is behind"},
    {"rejected", "fetch first", "failed to push"},
    {"rejected", "hook declined", "failed to push"},
    {"Authentication failed"},
    {"Could not resolve host"} }

Ok == [ok |-> TRUE, msg |-> {}]

\* what a local git command or a file operation can end with
Fatal == [ok |-> FALSE, msg |-> {"fatal"}]

LocalResults == {Ok, Fatal}

Results == {Ok} \cup {[ok |-> FALSE, msg |-> m] : m \in Messages}

\* what `git rev-parse --abbrev-ref HEAD` prints; "error" when it fails
RevParseOutputs == {"main", "dev", "HEAD", "", "error"}

PruneAges == {0, 30}

NonFastForwardLoose(msg) ==
  msg \cap {"non-fast-forward", "fetch first", "failed to push"} # {}

\* /non-fast-forward|fetch first|tip of your current branch is behind/.test(error.message)
NonFastForward(msg) ==
  msg \cap {"non-fast-forward", "fetch first", "tip of your current branch is behind"} # {}

\* stdout || 'main', and 'main' when rev-parse fails
currentBranch(out) == IF out \in {"", "error"} THEN "main" ELSE out

pushArgsPlain(hasUp, br) == <<"push", REMOTE_NAME, br>>

\* hasUpstream ? ['push', REMOTE_NAME, branch]
\*             : ['push', '--set-upstream', REMOTE_NAME, branch]
pushArgs(hasUp, br) ==
  IF hasUp THEN <<"push", REMOTE_NAME, br>>
  ELSE <<"push", "--set-upstream", REMOTE_NAME, br>>

\* what `git rev-parse --abbrev-ref --symbolic-full-name <branch>@{u}` ends
\* with: it resolves the upstream of a branch that tracks one and fails for
\* a branch that tracks none
UpstreamLookup(tr) == IF tr THEN Ok ELSE Fatal

\* try { await runGit(...); return true; } catch (error) { return false; }
branchHasUpstream(res) == res.ok

\* a successful push with --set-upstream makes the branch track the branch
\* it pushed to
Tracks(tr, args, res) == tr \/ (res.ok /\ "--set-upstream" \in Range(args))

Ran(args, res) == [args |-> args, ok |-> res.ok, msg |-> res.msg]

\* a commit that is made puts the local branch ahead of the remote branch;
\* a push that succeeds delivers every commit of the local branch
Ahead(ah, args, res) ==
  IF ~res.ok THEN ah
  ELSE IF args[1] = "commit" THEN TRUE
  ELSE IF args[1] = "push" THEN FALSE
  ELSE ah

\* pushChanges(projectPath, { pruneAfter }) is called.
PushStart(prune, tr, ah) ==
  /\ pushPc = "idle"
  /\ pushPc' = "branch"
  /\ pruneAfter' = prune
  /\ tracking' = tr
  /\ ahead' = ah
  /\ UNCHANGED <<branch, hasUpstream, gitLog, pushErr, pruneAgeDays, schedulerVars, pipeVars, watchVars>>

\* const branch = await currentBranch(projectPath)
PushBranch(out) ==
  /\ pushPc = "branch"
  /\ branch' = currentBranch(out)
  /\ pushPc' = "upstream"
  /\ UNCHANGED <<pruneAfter, pruneAgeDays, hasUpstream, tracking, ahead, gitLog, pushErr, schedulerVars, pipeVars, watchVars>>

\* const hasUpstream = await branchHasUpstream(projectPath, branch)
PushUpstream ==
  /\ pushPc = "upstream"
  /\ hasUpstream' = branchHasUpstream(UpstreamLookup(tracking))
  /\ pushPc' = "fetch"
  /\ UNCHANGED <<pruneAfter, pruneAgeDays, branch, tracking, ahead, gitLog, pushErr, schedulerVars, pipeVars, watchVars>>

\* the catch block of the try around fetch and push
PushCatch(res) ==
  IF NonFastForward(res.msg)
  THEN pushPc' = "pull" /\ pushErr' = pushErr
  ELSE pushPc' = "failed" /\ pushErr' = res.msg

PushDoneAlways == "prune"

\* after the try statement
PushDone == IF pruneAfter THEN "prune" ELSE "done"

\* await runGit(projectPath, ['fetch', '--all'])
PushFetch(res) ==
  /\ pushPc = "fetch"
  /\ gitLog' = Append(gitLog, Ran(<<"fetch", "--all">>, res))
  /\ IF res.ok THEN pushPc' = "push" /\ pushErr' = pushErr ELSE PushCatch(res)
  /\ UNCHANGED <<pruneAfter, pruneAgeDays, branch, hasUpstream, tracking, ahead, schedulerVars, pipeVars, watchVars>>

\* await runGit(projectPath, pushArgs)
PushPush(res) ==
  /\ pushPc = "push"
  /\ gitLog' = Append(gitLog, Ran(pushArgs(hasUpstream, branch), res))
  /\ IF res.ok THEN pushPc' = PushDone /\ pushErr' = pushErr ELSE PushCatch(res)
  /\ tracking' = Tracks(tracking, pushArgs(hasUpstream, branch), res)
  /\ ahead' = Ahead(ahead, pushArgs(hasUpstream, branch), res)
  /\ UNCHANGED <<pruneAfter, pruneAgeDays, branch, hasUpstream, schedulerVars, pipeVars, watchVars>>

\* in the catch block: await runGit(projectPath, ['pull', '--rebase', REMOTE_NAME, branch])
PushPull(res) ==
  /\ pushPc = "pull"
  /\ gitLog' = Append(gitLog, Ran(<<"pull", "--rebase", REMOTE_NAME, branch>>, res))
  /\ IF res.ok THEN pushPc' = "retry" /\ pushErr' = pushErr
     ELSE pushPc' = "failed" /\ pushErr' = res.msg
  /\ UNCHANGED <<pruneAfter, pruneAgeDays, branch, hasUpstream, tracking, ahead, schedulerVars, pipeVars, watchVars>>

\* in the catch block: await runGit(projectPath, pushArgs)
PushRetry(res) ==
  /\ pushPc = "retry"
  /\ gitLog' = Append(gitLog, Ran(pushArgs(hasUpstream, branch), res))
  /\ IF res.ok THEN pushPc' = PushDone /\ pushErr' = pushErr
     ELSE pushPc' = "failed" /\ pushErr' = res.msg
  /\ tracking' = Tracks(tracking, pushArgs(hasUpstream, branch), res)
  /\ ahead' = Ahead(ahead, pushArgs(hasUpstream, branch), res)
  /\ UNCHANGED <<pruneAfter, pruneAgeDays, branch, hasUpstream, schedulerVars, pipeVars, watchVars>>

\* pruneRepository: nothing unless days > 0; reflog expire, then gc; a
\* failure of either is a warning.
PushPrune(days, res1, res2) ==
  /\ pushPc = "prune"
  /\ pushPc' = "done"
  /\ pruneAgeDays' = days
  /\ gitLog' =
       IF days <= 0 THEN gitLog
       ELSE IF ~res1.ok THEN Append(gitLog, Ran(<<"reflog", "expire">>, res1))
       ELSE Append(Append(gitLog, Ran(<<"reflog", "expire">>, res1)), Ran(<<"gc">>, res2))
  /\ UNCHANGED <<pruneAfter, branch, hasUpstream, tracking, ahead, pushErr, schedulerVars, pipeVars, watchVars>>

PushNext ==
  \/ \E prune \in BOOLEAN, tr \in BOOLEAN, ah \in BOOLEAN : PushStart(prune, tr, ah)
  \/ \E out \in RevParseOutputs : PushBranch(out)
  \/ PushUpstream
  \/ \E res \in Results : PushFetch(res)
  \/ \E res \in Results : PushPush(res)
  \/ \E res \in Results : PushPull(res)
  \/ \E res \in Results : PushRetry(res)
  \/ \E days \in PruneAges, res1, res2 \in LocalResults : PushPrune(days, res1, res2)

PushSpec == Init /\ [][PushNext]_vars

\* ------------------------------------------- syncProject, syncSinglePath
\* depth 1 is <project>/.git, depth 2 is <project>/x/.git
GitDirDepths == {1, 2}

\* HTTP status of the answer to GET /repos/{owner}/{name}; 0: no response
LookupStatuses == {200, 404, 401, 0}

\* HTTP status of the answer to POST /user/repos; 0: no response
CreateStatuses == {201, 409, 0}

\* path.relative(projectPath, absolutePath) of a quick-sync
RelativePaths == {"", "f", "../f"}

WatchEvents == {"add", "addDir", "change", "unlink", "unlinkDir"}

\* exit code of `git diff --cached --quiet`
DiffCodes == {0, 1, 128}

NotFoundAnyError(status) == status # 200

\* error.response && error.response.status === 404
NotFound(status) == status = 404

AfterIgnored(res, next) == next

\* an awaited step has ended: the next position, or the error is thrown
After(res, next) == IF res.ok THEN next ELSE "failed"

Step(res, next) == syncPc' = After(res, next)

\* pushChanges(projectPath, { pruneAfter }) is called by the pass
Publish(prune, tr) ==
  /\ syncPc' = "publish"
  /\ pushPc' = "branch"
  /\ pruneAfter' = prune
  /\ tracking' = tr

\* syncProject(projectPath) or syncSinglePath(projectPath, absolutePath,
\* event) is called on a Project whose working tree has .git directories at
\* depths dirs and the exclusion file ign; syncSinglePath looks at neither.
SyncStart(kind, dirs, ign, rel, ev, staged, ah) ==
  /\ syncPc = "idle"
  /\ pushPc = "idle"
  /\ syncKind' = kind
  /\ IF kind = "full"
     THEN gitDirs' = dirs /\ gitignoreFile' = ign /\ ev = event /\ UNCHANGED event
     ELSE /\ dirs = gitDirs /\ ign = gitignoreFile /\ UNCHANGED <<gitDirs, gitignoreFile>>
          /\ ev \in WatchEvents
          /\ event' = ev
  /\ indexDiffers' = FALSE
  /\ kind = "full" => staged = {}
  /\ index' = staged
  /\ committed' = {}
  /\ ahead' = ah
  /\ syncPc' = IF kind = "full" THEN "lookup"
               ELSE IF rel = "" \/ rel = "../f" THEN "done" ELSE "qstage"
  /\ UNCHANGED <<apiLog, removed, pushPc, pruneAfter, pruneAgeDays, branch, hasUpstream, tracking, gitLog, pushErr>>
  /\ UNCHANGED <<schedulerVars, watchVars>>

\* ensureGiteaRepository: await API.get(...)
EnsureLookup(status) ==
  /\ syncPc = "lookup"
  /\ apiLog' = Append(apiLog, [method |-> "GET", status |-> status])
  /\ syncPc' = IF status = 200 THEN "localrepo"
               ELSE IF NotFound(status) THEN "create" ELSE "failed"
  /\ UNCHANGED <<syncKind, event, gitDirs, removed, gitignoreFile, indexDiffers, index, committed, pushVars, schedulerVars, watchVars>>

\* ensureGiteaRepository, in the catch block: await API.post(...)
EnsureCreate(status) ==
  /\ syncPc = "create"
  /\ apiLog' = Append(apiLog, [method |-> "POST", status |-> status])
  /\ syncPc' = IF status = 201 THEN "localrepo" ELSE "failed"
  /\ UNCHANGED <<syncKind, event, gitDirs, removed, gitignoreFile, indexDiffers, index, committed, pushVars, schedulerVars, watchVars>>

\* ensureLocalGitRepo: fs.access(<project>/.git), else `git init -b main`;
\* ensureDefaultGitignore follows only when the repository was initialised.
EnsureLocalGitRepo(res) ==
  /\ syncPc = "localrepo"
  /\ IF 1 \in gitDirs
     THEN syncPc' = "nested" /\ UNCHANGED <<gitLog, gitDirs>>
     ELSE /\ gitLog' = Append(gitLog, Ran(<<"init", "-b", "main">>, res))
          /\ gitDirs' = IF res.ok THEN gitDirs \cup {1} ELSE gitDirs
          /\ Step(res, "gitignore")
  /\ UNCHANGED <<syncKind, event, apiLog, removed, gitignoreFile, indexDiffers, index, committed>>
  /\ UNCHANGED <<pushPc, pruneAfter, branch, hasUpstream, tracking, ahead, pushErr, pruneAgeDays, schedulerVars, watchVars>>

GitignoreMissingAlways(file) == TRUE

\* fs.access(<project>/.gitignore) throws
GitignoreMissing(file) == file = "none"

\* ensureDefaultGitignore: fs.access(<project>/.gitignore), else writeFile
EnsureDefaultGitignore(res) ==
  /\ syncPc = "gitignore"
  /\ IF GitignoreMissing(gitignoreFile)
     THEN /\ gitignoreFile' = IF res.ok THEN "default" ELSE gitignoreFile
          /\ Step(res, "nested")
     ELSE syncPc' = "nested" /\ UNCHANGED gitignoreFile
  /\ UNCHANGED <<syncKind, event, apiLog, gitDirs, removed, indexDiffers, index, committed, pushVars, schedulerVars, watchVars>>

\* The lines `find <project> -mindepth 2 -type d -name .git` prints: all of
\* the nested .git directories when it succeeds, and what it had printed
\* (error.stdout) when it fails.
FindOutputs(dirs) == SUBSET (dirs \ {1})

\* removeNestedGitDirs: fs.rm(gitDir, { recursive, force }) on every line
RemoveNestedGitDirs(ok, found, res) ==
  /\ syncPc = "nested"
  /\ found \in FindOutputs(gitDirs)
  /\ ok => found = gitDirs \ {1}
  /\ IF found = {}
     THEN syncPc' = "identity" /\ UNCHANGED <<gitDirs, removed>>
     ELSE /\ gitDirs' = IF res.ok THEN gitDirs \ found ELSE gitDirs
          /\ removed' = IF res.ok THEN removed \cup found ELSE removed
          /\ Step(res, "identity")
  /\ UNCHANGED <<syncKind, event, apiLog, gitignoreFile, indexDiffers, index, committed, pushVars, schedulerVars, watchVars>>

\* a local git command of the pass
RunGit(args, res, next) ==
  /\ gitLog' = Append(gitLog, Ran(args, res))
  /\ syncPc' = next
  /\ ahead' = Ahead(ahead, args, res)
  /\ UNCHANGED <<syncKind, event, apiLog, gitDirs, removed, gitignoreFile>>
  /\ UNCHANGED <<pushPc, pruneAfter, branch, hasUpstream, tracking, pushErr, pruneAgeDays, schedulerVars, watchVars>>

\* ensureGitIdentity: ensureGitConfig of user.name, user.email, ...; the
\* failure of a `git config key value` is thrown
EnsureGitIdentity(res) ==
  /\ syncPc = "identity"
  /\ RunGit(<<"config">>, res, After(res, "remote"))
  /\ UNCHANGED <<indexDiffers, index, committed>>

\* ensureRemote: remote get-url, then set-url or add; a failure is thrown
EnsureRemote(res) ==
  /\ syncPc = "remote"
  /\ RunGit(<<"remote">>, res, After(res, "history"))
  /\ UNCHANGED <<indexDiffers, index, committed>>

\* what `git rev-parse --is-shallow-repository` prints; "error" when it fails
ShallowOutputs == {"true", "false", "error"}

\* ensureFullHistory: rev-parse --is-shallow-repository, and fetch
\* --unshallow when it prints true; the failure of the first is ignored and
\* the failure of the second is a warning
EnsureFullHistory(out, res) ==
  /\ syncPc = "history"
  /\ syncPc' = "stage"
  /\ LET check == Ran(<<"rev-parse", "--is-shallow-repository">>,
                      IF out = "error" THEN Fatal ELSE Ok)
     IN  gitLog' = IF out = "true"
                   THEN Append(Append(gitLog, check), Ran(<<"fetch", "--unshallow">>, res))
                   ELSE Append(gitLog, check)
  /\ UNCHANGED <<syncKind, event, apiLog, gitDirs, removed, gitignoreFile, indexDiffers, index, committed>>
  /\ UNCHANGED <<pushPc, pruneAfter, branch, hasUpstream, tracking, ahead, pushErr, pruneAgeDays, schedulerVars, watchVars>>

\* stageAll: git add --all; differs: the index it leaves differs from HEAD
StageAll(res, differs) ==
  /\ syncPc = "stage"
  /\ RunGit(<<"add", "--all">>, res, After(res, "status"))
  /\ index' = IF res.ok /\ differs THEN index \cup {"f"} ELSE index
  /\ indexDiffers' = (res.ok /\ index' # {})
  /\ UNCHANGED committed

StatusAfterSkipsPublish(out) == IF out THEN "commit" ELSE "done"

\* syncProject: if (await hasPendingChanges(...)) { await commitChanges(...) }
\* and then, in either case, await pushChanges(...)
StatusAfter(out) == IF out THEN "commit" ELSE "push"

\* hasPendingChanges: git status --porcelain; stdout.length > 0.  The output
\* lists every staged change, and may list what `git add` cannot stage.
HasPendingChanges(res, out) ==
  /\ syncPc = "status"
  /\ indexDiffers => out
  /\ RunGit(<<"status", "--porcelain">>, res, IF ~res.ok THEN "failed" ELSE StatusAfter(out))
  /\ UNCHANGED <<indexDiffers, index, committed>>

NothingToCommit == [ok |-> FALSE, msg |-> {"nothing to commit"}]

\* what `git commit -m` ends with: it makes a commit only of a staged
\* difference and reports "nothing to commit" only when there is none
CommitResults(differs) == IF differs THEN {Ok, Fatal} ELSE {NothingToCommit, Fatal}

\* `git commit -m` names no path: a commit that is made records every
\* staged change of the index
CommitContent(res, idx) == IF res.ok THEN idx ELSE {}

CommitAfterStrict(res) == After(res, "push")

\* commitChanges: /nothing to commit/.test(error.message) is not an error
CommitAfter(res) ==
  IF res.ok \/ "nothing to commit" \in res.msg THEN "push" ELSE "failed"

\* commitChanges: git commit -m "Auto backup <time>"
CommitChanges(res) ==
  /\ syncPc = "commit"
  /\ res \in CommitResults(indexDiffers)
  /\ RunGit(<<"commit", "-m">>, res, CommitAfter(res))
  /\ committed' = CommitContent(res, index)
  /\ index' = IF res.ok THEN {} ELSE index
  /\ UNCHANGED indexDiffers

stageArgsAddOnly(ev) == <<"add", "f">>

\* event === 'unlink' || event === 'unlinkDir' ? rm -rf : add
stageArgs(ev) ==
  IF ev = "unlink" \/ ev = "unlinkDir" THEN <<"rm", "-rf", "f">> ELSE <<"add", "f">>

\* syncSinglePath: git rm -rf or git add of the one path; a failure is
\* logged and the quick-sync returns
QuickStage(res, differs) ==
  /\ syncPc = "qstage"
  /\ RunGit(stageArgs(event), res, IF res.ok THEN "qdiff" ELSE "done")
  /\ index' = IF res.ok /\ differs THEN index \cup {"f"} ELSE index
  /\ indexDiffers' = (res.ok /\ index' # {})
  /\ UNCHANGED committed

\* hasStagedChanges: git diff --cached --quiet exits with 0 (nothing
\* staged), 1 (something staged) or another code (thrown)
QuickDiff(code) ==
  /\ syncPc = "qdiff"
  /\ code \in {IF indexDiffers THEN 1 ELSE 0, 128}
  /\ RunGit(<<"diff", "--cached", "--quiet">>, IF code = 0 THEN Ok ELSE Fatal,
            IF code = 0 THEN "done" ELSE IF code = 1 THEN "qcommit" ELSE "failed")
  /\ UNCHANGED <<indexDiffers, index, committed>>

\* syncSinglePath: git commit -m "Auto backup (quick) ..."; its failure is
\* caught and logged, and the quick-sync returns
QuickCommit(res) ==
  /\ syncPc = "qcommit"
  /\ RunGit(<<"commit", "-m">>, res, IF res.ok THEN "push" ELSE "done")
  /\ committed' = CommitContent(res, index)
  /\ index' = IF res.ok THEN {} ELSE index
  /\ UNCHANGED indexDiffers

\* await pushChanges(projectPath, { pruneAfter: true }) in syncProject,
\* await pushChanges(projectPath, { pruneAfter: false }) in syncSinglePath
SyncPublish(tr) ==
  /\ syncPc = "push"
  /\ Publish(syncKind = "full", tr)
  /\ UNCHANGED <<syncKind, event, apiLog, gitDirs, removed, gitignoreFile, indexDiffers, index, committed>>
  /\ UNCHANGED <<branch, hasUpstream, ahead, gitLog, pushErr, pruneAgeDays, schedulerVars, watchVars>>

\* pushChanges has returned or thrown; syncSinglePath catches and logs what
\* it throws
SyncSettle ==
  /\ syncPc = "publish"
  /\ pushPc \in {"done", "failed"}
  /\ syncPc' = IF pushPc = "done" \/ syncKind = "quick" THEN "done" ELSE "failed"
  /\ UNCHANGED <<syncKind, event, apiLog, gitDirs, removed, gitignoreFile, indexDiffers, index, committed, pushVars, schedulerVars, watchVars>>

\* what the index holds when a quick-sync begins: nothing, or a change of
\* another path g
StagedBefore == {{}, {"g"}}

\* the passes that can begin: a full pass or a quick-sync, and none while
\* the observed pass is under way
PassKinds == IF syncPc = "idle" THEN {"full", "quick"} ELSE {}

SyncNext ==
  \/ \E kind \in PassKinds, dirs \in SUBSET GitDirDepths,
        ign \in {"none", "user"}, rel \in RelativePaths, ev \in WatchEvents \cup {"none"},
        staged \in StagedBefore, ah \in BOOLEAN :
        SyncStart(kind, dirs, ign, rel, ev, staged, ah)
  \/ \E status \in LookupStatuses : EnsureLookup(status)
  \/ \E status \in CreateStatuses : EnsureCreate(status)
  \/ \E res \in LocalResults : EnsureLocalGitRepo(res)
  \/ \E res \in LocalResults : EnsureDefaultGitignore(res)
  \/ \E ok \in BOOLEAN, found \in SUBSET GitDirDepths, res \in LocalResults :
        RemoveNestedGitDirs(ok, found, res)
  \/ \E res \in LocalResults : EnsureGitIdentity(res)
  \/ \E res \in LocalResults : EnsureRemote(res)
  \/ \E out \in ShallowOutputs, res \in LocalResults : EnsureFullHistory(out, res)
  \/ \E res \in LocalResults, differs \in BOOLEAN : StageAll(res, differs)
  \/ \E res \in LocalResults, out \in BOOLEAN : HasPendingChanges(res, out)
  \/ \E res \in LocalResults \cup {NothingToCommit} : CommitChanges(res)
  \/ \E res \in LocalResults, differs \in BOOLEAN : QuickStage(res, differs)
  \/ \E code \in DiffCodes : QuickDiff(code)
  \/ \E res \in LocalResults : QuickCommit(res)
  \/ \E tr \in BOOLEAN : SyncPublish(tr)
  \/ \E out \in RevParseOutputs : PushBranch(out)
  \/ PushUpstream
  \/ \E res \in Results : PushFetch(res)
  \/ \E res \in Results : PushPush(res)
  \/ \E res \in Results : PushPull(res)
  \/ \E res \in Results : PushRetry(res)
  \/ \E days \in PruneAges, res1, res2 \in LocalResults : PushPrune(days, res1, res2)
  \/ SyncSettle

SyncSpec == Init /\ [][SyncNext]_vars

\* ------------------------------------------------ ignore rules, the watcher
\* one pattern of each kind buildChokidarIgnorePatterns distinguishes:
\* 'tmp/', '.env', '*.log'
BUILTIN_IGNORE_PATTERNS == << <<"t", "/">>, <<".", "e">>, <<"*", ".", "l">> >>

\* DEFAULT_IGNORE_CONFIG_PATH
ConfigPath == Join(<<Text.c>>)

\* What reading the pattern file can give: unreadable, or a "patterns" array
PatternFiles ==
  { [readable |-> FALSE, patterns |-> <<>>],
    [readable |-> TRUE, patterns |-> <<>>],
    [readable |-> TRUE, patterns |-> << <<"d", "/">> >>],
    [readable |-> TRUE, patterns |-> << <<>>, <<"*", ".", "l">> >>],
    [readable |-> TRUE, patterns |-> << <<".", "e">>, <<"d", "/">> >>] }

\* What loadGitignoreFilters can find: no .gitignore, or the one of /r/a
GitignoreReads ==
  { {}, {[project |-> Join(<<Text.r, Text.a>>), names |-> {Text.f}]} }

\* patterns.map(String(pattern).trim()).filter(pattern.length > 0)
normalizePatterns(patterns) == FilterBoolean(patterns)

\* getIgnorePatterns after cachedIgnorePatterns = null
getIgnorePatterns(file) ==
  IF file.readable THEN normalizePatterns(file.patterns) ELSE BUILTIN_IGNORE_PATTERNS

IsSep(ch) == ch \in {"/", "\\"}

\* /(^|[/\\])\\.git($|[/\\])/.test(s): after the start or a separator, a
\* backslash, any character, "git", then the end or a separator
GitRegexTest(s) ==
  \E i \in DOMAIN s :
    /\ i = 1 \/ IsSep(s[i - 1])
    /\ s[i] = "\\"
    /\ i + 4 <= Len(s)
    /\ SubSeq(s, i + 2, i + 4) = <<"g", "i", "t">>
    /\ i + 4 = Len(s) \/ IsSep(s[i + 5])

\* new RegExp(`(^|[/\\\\])${dirName}($|[/\\\\])`).test(s), dirName escaped
DirRegexTest(name, s) ==
  \E i \in DOMAIN s :
    /\ i = 1 \/ IsSep(s[i - 1])
    /\ i + Len(name) - 1 <= Len(s)
    /\ SubSeq(s, i, i + Len(name) - 1) = name
    /\ i + Len(name) - 1 = Len(s) \/ IsSep(s[i + Len(name)])

\* new RegExp(`(^|[/\\\\])${escapedPattern}$`).test(s)
ExactRegexTest(name, s) ==
  /\ Len(name) <= Len(s)
  /\ SubSeq(s, Len(s) - Len(name) + 1, Len(s)) = name
  /\ Len(name) = Len(s) \/ IsSep(s[Len(s) - Len(name)])

\* the pattern from position i on matches a prefix of s from position j on:
\* '.' is itself, '*' is any string, '?' is any character
RECURSIVE WildFrom(_, _, _, _)
WildFrom(pattern, i, s, j) ==
  IF i > Len(pattern) THEN TRUE
  ELSE IF pattern[i] = "*"
       THEN \E k \in j..(Len(s) + 1) : WildFrom(pattern, i + 1, s, k)
  ELSE /\ j <= Len(s)
       /\ pattern[i] = "?" \/ pattern[i] = s[j]
       /\ WildFrom(pattern, i + 1, s, j + 1)

\* new RegExp(regexPattern).test(s): not anchored
WildRegexTest(pattern, s) == \E j \in 1..(Len(s) + 1) : WildFrom(pattern, 1, s, j)

\* the regular expression the forEach of buildChokidarIgnorePatterns pushes
\* for one pattern
Compile(pattern) ==
  IF pattern # <<>> /\ pattern[Len(pattern)] = "/"
  THEN [kind |-> "dir", text |-> SubSeq(pattern, 1, Len(pattern) - 1)]
  ELSE IF "*" \in Range(pattern)
       THEN [kind |-> "wildcard", text |-> pattern]
       ELSE [kind |-> "exact", text |-> pattern]

\* the `patterns` array of buildChokidarIgnorePatterns: the .git expression,
\* then one expression per pattern of cachedIgnorePatterns
buildChokidarIgnorePatterns(cached) ==
  <<[kind |-> "git", text |-> <<>>]>> \o [i \in DOMAIN cached |-> Compile(cached[i])]

\* pattern.test(s)
Test(rx, s) ==
  CASE rx.kind = "git" -> GitRegexTest(s)
    [] rx.kind = "dir" -> DirRegexTest(rx.text, s)
    [] rx.kind = "wildcard" -> WildRegexTest(rx.text, s)
    [] rx.kind = "exact" -> ExactRegexTest(rx.text, s)

\* filePath.replace(/\\/g, '/')
normalizeSeparators(s) == [i \in DOMAIN s |-> IF s[i] = "\\" THEN "/" ELSE s[i]]

\* ig.ignores(relativePath) of a .gitignore that lists plain names: a
\* segment of the path is one of the names
Ignores(names, rel) == \E seg \in Range(Split(rel)) : seg \in names

\* the function buildChokidarIgnorePatterns returns, over the `patterns` it
\* captured and the gitignoreFilters of the moment
Ignored(patterns, filters, filePath) ==
  \/ \E i \in DOMAIN patterns : Test(patterns[i], normalizeSeparators(filePath))
  \/ \E flt \in filters :
       LET absolutePath == resolve(filePath)
           absoluteProjectPath == resolve(flt.project)
           relativePath == relative(absoluteProjectPath, absolutePath)
       IN  /\ \/ startsWith(absolutePath, absoluteProjectPath \o <<Sep>>)
              \/ absolutePath = absoluteProjectPath
           /\ relativePath # <<>>
           /\ ~startsWith(relativePath, Text.dotdot)
           /\ Ignores(flt.names, relativePath)

UnderRootNoSep(absolute, rootPath) ==
  absolute = resolve(rootPath) \/ startsWith(absolute, resolve(rootPath))

\* the callback of CONFIG.projectRoots.find
UnderRoot(absolute, rootPath) ==
  absolute = resolve(rootPath) \/ startsWith(absolute, resolve(rootPath) \o <<Sep>>)

resolveProjectFromPath(roots, targetPath) ==
  IF targetPath = <<>> THEN Null
  ELSE
    LET absolute == resolve(targetPath)
        found == {i \in DOMAIN roots : UnderRoot(absolute, roots[i])}
    IN  IF found = {} THEN Null
        ELSE
          LET root == roots[Min(found)]
              rel == relative(root, absolute)
              segments == FilterBoolean(Split(rel))
          IN  IF rel = <<>> \/ startsWith(rel, Text.dotdot) THEN Null
              ELSE IF segments = <<>> THEN Null
              ELSE IF segments[1] = <<>> \/ segments[1][1] = "." THEN Null
              ELSE pathJoin(root, segments[1])

\* The paths chokidar reports events for.
EventSegments ==
  { <<>>, <<Text.n, Text.f>>,
    <<Text.r>>, <<Text.r, Text.f>>, <<Text.r, Text.a>>, <<Text.r, Text.a, Text.f>>,
    <<Text.r, Text.a, Text.git>>, <<Text.r, Text.a, Text.git, Text.f>>,
    <<Text.r, Text.a, Text.d, Text.f>>, <<Text.r, Text.a, Text.log>>,
    <<Text.r, Text.a, Text.env>>, <<Text.r, Text.a, Text.gitignore>>,
    <<Text.r, Text.hidden, Text.f>>,
    <<Text.r, Text.n>>, <<Text.r, Text.n, Text.a, Text.f>>,
    <<Text.r2>>, <<Text.r2, Text.a, Text.f>>,
    <<Text.d, Text.a, Text.f>> }

EventPaths == { Join(segs) : segs \in EventSegments }

\* main(): await getIgnorePatterns()
LoadConfig(file) ==
  /\ watchPc = "boot"
  /\ watchPc' = "loaded"
  /\ cachedIgnorePatterns' = getIgnorePatterns(file)
  /\ UNCHANGED <<projectRoots, watcherPatterns, gitignoreFilters, reloaded,
                 lastPath, lastIgnored, lastProject, lastCalls, loads, simpleVars>>
  /\ UNCHANGED <<schedulerVars, pushVars, pipeVars>>

\* startWatcher: loadGitignoreFilters, buildChokidarIgnorePatterns,
\* chokidar.watch(..., { ignored: ignorePatterns })
StartWatcher(found) ==
  /\ watchPc = "loaded"
  /\ watchPc' = "watching"
  /\ gitignoreFilters' = found
  /\ watcherPatterns' = buildChokidarIgnorePatterns(cachedIgnorePatterns)
  /\ UNCHANGED <<projectRoots, cachedIgnorePatterns, reloaded,
                 lastPath, lastIgnored, lastProject, lastCalls, loads, simpleVars>>
  /\ UNCHANGED <<schedulerVars, pushVars, pipeVars>>

\* The pattern file is rewritten and chokidar sees the change: unless the
\* predicate ignores the path, handleWatchEvent reloads the patterns and
\* the .gitignore filters (the sweep it then starts is ConfigEvent).
ConfigChanged(file) ==
  /\ watchPc = "watching"
  /\ lastPath' = ConfigPath
  /\ lastIgnored' = Ignored(watcherPatterns, gitignoreFilters, ConfigPath)
  /\ lastProject' = Null
  /\ IF lastIgnored'
     THEN UNCHANGED <<cachedIgnorePatterns, gitignoreFilters, reloaded>>
     ELSE /\ cachedIgnorePatterns' = getIgnorePatterns(file)
          /\ gitignoreFilters' \in GitignoreReads
          /\ reloaded' = TRUE
  /\ lastCalls' = IF lastIgnored' THEN <<>>
                  ELSE <<"getIgnorePatterns", "loadGitignoreFilters", "runFullSync">>
  /\ UNCHANGED <<projectRoots, watcherPatterns, watchPc, loads, simpleVars>>
  /\ UNCHANGED <<schedulerVars, pushVars, pipeVars>>

IsGitignoreNever(absolutePath) == FALSE

\* path.basename(absolutePath) === '.gitignore'
IsGitignore(absolutePath) == basename(absolutePath) = Text.gitignore

\* chokidar sees a change at filePath: unless the predicate ignores it,
\* handleWatchEvent resolves the Project; a .gitignore reloads the filters,
\* any other path goes on to queueQuickSync and scheduleProject
\* (WatchEvent).
FsEvent(filePath) ==
  /\ watchPc = "watching"
  /\ lastPath' = filePath
  /\ lastIgnored' = Ignored(watcherPatterns, gitignoreFilters, filePath)
  /\ lastProject' = IF lastIgnored' THEN Null
                    ELSE resolveProjectFromPath(projectRoots, resolve(filePath))
  /\ IF lastIgnored' \/ lastProject' = Null
     THEN lastCalls' = <<>> /\ UNCHANGED gitignoreFilters
     ELSE IF IsGitignore(resolve(filePath))
          THEN /\ lastCalls' = <<"loadGitignoreFilters">>
               /\ gitignoreFilters' \in GitignoreReads
          ELSE /\ lastCalls' = <<"queueQuickSync", "scheduleProject">>
               /\ UNCHANGED gitignoreFilters
  /\ UNCHANGED <<projectRoots, cachedIgnorePatterns, watcherPatterns, watchPc, reloaded, loads, simpleVars>>
  /\ UNCHANGED <<schedulerVars, pushVars, pipeVars>>

WatchNext ==
  \/ \E file \in PatternFiles : LoadConfig(file)
  \/ \E found \in GitignoreReads : StartWatcher(found)
  \/ \E file \in PatternFiles : ConfigChanged(file)
  \/ \E filePath \in EventPaths : FsEvent(filePath)

WatchSpec == WatchInit /\ [][WatchNext]_vars

\* ------------------------------------------- loadGitignoreFilters, stepwise
\* the reloads that run together
MaxReloads == 2

\* what discoverProjectDirectories finds under the roots /r and /r2
DiskProjects ==
  << <<Join(<<Text.r, Text.a>>), Join(<<Text.r, Text.d>>)>>, <<Join(<<Text.r2, Text.a>>)>> >>

\* the .gitignore files on disk: /r/a and /r2/a have one that lists f,
\* /r/d has none
DiskGitignores ==
  { [project |-> Join(<<Text.r, Text.a>>), names |-> {Text.f}],
    [project |-> Join(<<Text.r2, Text.a>>), names |-> {Text.f}] }

\* the paths chokidar asks the `ignored` function about during a reload
ReloadPaths ==
  { Join(<<Text.r, Text.a, Text.f>>), Join(<<Text.r, Text.d, Text.f>>),
    Join(<<Text.r2, Text.a, Text.f>>) }

\* a call that has left the loop over the roots
LoadSettled(ld) == ld.root > Len(DiskProjects)

\* the await a call is suspended at after the one at (root, proj): the
\* readFile of the next project directory of the root, or the
\* discoverProjectDirectories (proj = 0) of the next root
NextAwait(ld) ==
  IF ld.proj < Len(DiskProjects[ld.root])
  THEN [root |-> ld.root, proj |-> ld.proj + 1]
  ELSE [root |-> ld.root + 1, proj |-> 0]

\* gitignoreFilters.set(projectPath, ig) after a readFile that succeeded
SetFilter(filters, projectPath) ==
  {flt \in filters : flt.project # projectPath}
    \cup {flt \in DiskGitignores : flt.project = projectPath}

\* loadGitignoreFilters is called: gitignoreFilters.clear(), then the call
\* is suspended at discoverProjectDirectories of the first root
LoadGitignoreFilters ==
  /\ watchPc = "watching"
  /\ Len(loads) < MaxReloads
  /\ gitignoreFilters' = {}
  /\ loads' = Append(loads, [root |-> 1, proj |-> 0])
  /\ UNCHANGED <<projectRoots, cachedIgnorePatterns, watcherPatterns, watchPc, reloaded,
                 lastPath, lastIgnored, lastProject, lastCalls, simpleVars>>
  /\ UNCHANGED <<schedulerVars, pushVars, pipeVars>>

\* the await of call k settles: a readFile that succeeded sets the filter
\* of its project, a readFile that threw ENOENT sets none
LoadStep(k) ==
  /\ k \in DOMAIN loads
  /\ ~LoadSettled(loads[k])
  /\ gitignoreFilters' =
       IF loads[k].proj = 0 THEN gitignoreFilters
       ELSE SetFilter(gitignoreFilters, DiskProjects[loads[k].root][loads[k].proj])
  /\ loads' = [loads EXCEPT ![k] = NextAwait(loads[k])]
  /\ UNCHANGED <<projectRoots, cachedIgnorePatterns, watcherPatterns, watchPc, reloaded,
                 lastPath, lastIgnored, lastProject, lastCalls, simpleVars>>
  /\ UNCHANGED <<schedulerVars, pushVars, pipeVars>>

\* chokidar calls the `ignored` function for filePath
IgnoredCall(filePath) ==
  /\ watchPc = "watching"
  /\ lastPath' = filePath
  /\ lastIgnored' = Ignored(watcherPatterns, gitignoreFilters, filePath)
  /\ UNCHANGED <<projectRoots, cachedIgnorePatterns, watcherPatterns, gitignoreFilters,
                 watchPc, reloaded, lastProject, lastCalls, loads, simpleVars>>
  /\ UNCHANGED <<schedulerVars, pushVars, pipeVars>>

ReloadNext ==
  \/ \E file \in PatternFiles : LoadConfig(file)
  \/ StartWatcher(DiskGitignores)
  \/ LoadGitignoreFilters
  \/ \E k \in 1..MaxReloads : LoadStep(k)
  \/ \E filePath \in ReloadPaths : IgnoredCall(filePath)

ReloadSpec == Init /\ [][ReloadNext]_vars

\* --------------------------------------- simple variant (unnamed/part_001)
\* handleFileChange(filePath) for a path of Project p: clearTimeout of the
\* Project's timer if it has one, then setTimeout(..., CONFIG.debounceMs)
\* and pendingSyncs.set(projectPath, timeout)
HandleFileChange(p) ==
  /\ pendingSyncs' = [pendingSyncs EXCEPT ![p] = DebounceTicks]
  /\ UNCHANGED <<syncing, schedulerVars, pushVars, pipeVars>>
  /\ UNCHANGED <<projectRoots, cachedIgnorePatterns, watcherPatterns, gitignoreFilters,
                 watchPc, reloaded, lastPath, lastIgnored, lastProject, lastCalls, loads>>

\* time passes: every timer that is armed has one tick less left; a timer
\* with nothing left fires before time goes on
SimpleTick ==
  /\ \E p \in Projects : pendingSyncs[p] > 0
  /\ \A p \in Projects : pendingSyncs[p] # 0
  /\ pendingSyncs' = [p \in Projects |->
                        IF pendingSyncs[p] = NoTimer THEN NoTimer ELSE pendingSyncs[p] - 1]
  /\ UNCHANGED <<syncing, schedulerVars, pushVars, pipeVars>>
  /\ UNCHANGED <<projectRoots, cachedIgnorePatterns, watcherPatterns, gitignoreFilters,
                 watchPc, reloaded, lastPath, lastIgnored, lastProject, lastCalls, loads>>

\* the timer callback of Project p: pendingSyncs.delete(projectPath), then
\* await syncProject(projectPath), which suspends at its first await
SimpleTimerFire(p) ==
  /\ pendingSyncs[p] = 0
  /\ syncing[p] < MaxSyncing
  /\ pendingSyncs' = [pendingSyncs EXCEPT ![p] = NoTimer]
  /\ syncing' = [syncing EXCEPT ![p] = @ + 1]
  /\ UNCHANGED <<schedulerVars, pushVars, pipeVars>>
  /\ UNCHANGED <<projectRoots, cachedIgnorePatterns, watcherPatterns, gitignoreFilters,
                 watchPc, reloaded, lastPath, lastIgnored, lastProject, lastCalls, loads>>

\* a syncProject call on p returns or throws; the callback logs what it
\* throws
SimpleSyncSettle(p) ==
  /\ syncing[p] > 0
  /\ syncing' = [syncing EXCEPT ![p] = @ - 1]
  /\ UNCHANGED <<pendingSyncs, schedulerVars, pushVars, pipeVars>>
  /\ UNCHANGED <<projectRoots, cachedIgnorePatterns, watcherPatterns, gitignoreFilters,
                 watchPc, reloaded, lastPath, lastIgnored, lastProject, lastCalls, loads>>

SimpleNext ==
  \/ \E p \in Projects : HandleFileChange(p)
  \/ SimpleTick
  \/ \E p \in Projects : SimpleTimerFire(p)
  \/ \E p \in Projects : SimpleSyncSettle(p)

SimpleSpec == Init /\ [][SimpleNext]_vars

\* Every syncProject call of the drain settles and an armed timer fires.
FairSpec ==
  /\ Spec
  /\ WF_vars(TimerFire)
  /\ WF_vars(\E k \in 1..MaxEvents, outcome \in SyncOutcomes : DrainSyncSettle(k, outcome))

\* ------------------------------------------------------------ properties
\* a full Sync Pipeline pass is suspended in syncProject(p)
FullSyncRunning(p) ==
  \/ \E k \in DOMAIN drains : drains[k] = p
  \/ \E s \in DOMAIN sweeps : sweeps[s].st = "sync" /\ Head(sweeps[s].todo) = p

\* a quick-sync is suspended in syncSinglePath(p, ...)
QuickSyncRunning(p) == \E i \in DOMAIN ops : ops[i].st = "running" /\ ops[i].proj = p

\* C1: a full pass (syncProject) and a quick-sync (syncSinglePath) never
\* execute at the same time on the same Project.
C1_NoFullAndQuickOnSameProject ==
  \A p \in Projects : ~(FullSyncRunning(p) /\ QuickSyncRunning(p))

\* C2: at most one quick-sync operation is executing at any time.
C2_AtMostOneQuickSync ==
  Cardinality({i \in DOMAIN ops : ops[i].st = "running"}) <= 1

\* an event arrived while an earlier quick-sync is suspended, and waits
C2_Witness ==
  \E i, j \in DOMAIN ops : i < j /\ ops[i].st = "running" /\ ops[j].st = "queued"

\* C3: quick-syncs run in arrival order: the quick-sync of a later event has
\* not begun unless the quick-sync of every earlier event has settled.
C3_QuickSyncArrivalOrder ==
  \A i, j \in DOMAIN ops : (i < j /\ ops[j].st # "queued") => ops[i].st = "settled"

\* the later event of another Project runs after the earlier one settled
C3_Witness ==
  \E i, j \in DOMAIN ops :
     /\ i < j /\ ops[i].proj # ops[j].proj
     /\ ops[i].st = "settled" /\ ops[j].st = "running"

\* C4: at most one sweep is active; a runFullSync call made while a sweep is
\* in flight starts none, and every call settles exactly when its sweep does.
C4_SingleSweep ==
  /\ Cardinality({s \in DOMAIN sweeps : SweepActive(s)}) <= 1
  /\ \A c \in DOMAIN calls : calls[c].settled <=> SweepSettled(calls[c].sweep)
  /\ fullSyncPromise # 0 => SweepActive(fullSyncPromise)

\* two calls shared one sweep and have both seen it settle
C4_Witness ==
  \E c, d \in DOMAIN calls :
     c < d /\ calls[c].sweep = calls[d].sweep /\ calls[c].settled /\ calls[d].settled

\* the events of Project p, all arrived with no timer expiry in between
OneWindow(p) ==
  LET evs == {i \in DOMAIN ops : ops[i].proj = p}
  IN  evs # {} /\ \A i, j \in evs : ops[i].win = ops[j].win

\* C5: the events of one Project that arrive within one debounce window lead
\* to one full pass of the drain for that Project, never to more.
C5_DebounceCollapse ==
  \A p \in EventProjects : OneWindow(p) => passes[p] <= 1

\* C6: at most one drain loop is active, so the drain has at most one
\* syncProject call in progress.
C6_SingleDrain == Len(drains) <= 1

\* the timer expired a second time while the drain of the first expiry runs
\* and a Project waits in the Pending Set
C6_Witness ==
  Len(drains) = 1 /\ pendingProjects # <<>> /\ ~flushTimer /\ expiries >= 2

\* C7: every pending Project is eventually taken by the drain and passed to
\* syncProject.
C7_NoPendingLost ==
  \A p \in EventProjects : (p \in Range(pendingProjects)) ~> (p \in Range(drains))

\* a Project was marked pending while a drain is running
C7_Witness == drains # <<>> /\ pendingProjects # <<>> /\ flushTimer

\* C8: a failed syncProject ends neither the drain nor the sweep: no drain
\* loop ends with Projects pending and no sweep settles with discovered
\* Projects it has not passed to syncProject.
C8_FailureConfined == abandoned = {} /\ skipped = {}

\* a sweep syncs a Project after the syncProject of an earlier one failed
C8_Witness ==
  \E s \in DOMAIN sweeps : sweeps[s].st = "sync" /\ sweeps[s].failed

\* C9: a discovery error of one root leaves the other roots enumerated in
\* the same sweep and the process running.
C9_DiscoveryErrorConfined == unlisted = {} /\ phase # "exited"

\* what git prints when it rejects a push because the remote branch is ahead
RemoteAhead(msg) ==
  \/ "non-fast-forward" \in msg
  \/ "fetch first" \in msg
  \/ "tip of your current branch is behind" \in msg

\* the direct push attempt: the command run after a successful fetch
DirectPush == Len(gitLog) >= 2 /\ gitLog[1].ok /\ gitLog[2].args[1] = "push"

\* C10: when the direct push fails with a message of a remote-ahead
\* rejection, pushChanges runs pull --rebase on the remote branch and then,
\* the rebase done, the same push again; when it fails with any other message
\* that error is thrown and no further command is run.
C10_PushRecovery ==
  (pushPc \in {"done", "failed", "prune"} /\ DirectPush /\ ~gitLog[2].ok) =>
     IF RemoteAhead(gitLog[2].msg)
     THEN /\ Len(gitLog) >= 3
          /\ gitLog[3].args = <<"pull", "--rebase", REMOTE_NAME, branch>>
          /\ gitLog[3].ok => (Len(gitLog) >= 4 /\ gitLog[4].args = gitLog[2].args)
          /\ ~gitLog[3].ok => (Len(gitLog) = 3 /\ pushPc = "failed")
     ELSE /\ Len(gitLog) = 2
          /\ pushPc = "failed"
          /\ pushErr = gitLog[2].msg

\* a rejected first push of a branch with no upstream, recovered by rebase
\* and an identical second push
C10_Witness ==
  /\ pushPc = "done" /\ Len(gitLog) = 4 /\ DirectPush
  /\ ~gitLog[2].ok /\ gitLog[3].ok /\ gitLog[4].ok
  /\ gitLog[4].args = <<"push", "--set-upstream", REMOTE_NAME, "dev">>

\* C17: the drain takes a Project from the Pending Set only when the timer
\* armed by (or after) the last event that marked it has expired: no step
\* starts a pass of the drain on a Project whose debounce delay is still
\* running (on the expiry of a timer, still running after it).
C17_NoSyncBeforeDelay ==
  [][\A p \in Projects :
       passes'[p] > passes[p] =>
         IF timers' < timers THEN p \notin fresh' ELSE p \notin fresh]_vars

\* C18: every qualifying event that handleWatchEvent has accepted has marked
\* its Project pending (or the mark was already taken by a drain), whether
\* or not its quick-sync, or an earlier one of the chain, has settled.
C18_EventMarksPending ==
  \A i \in DOMAIN ops :
    ops[i].proj \in Range(pendingProjects) \/ passes[ops[i].proj] >= 1

\* C20: with the token or the remote URL base missing from the environment
\* the process exits in main() before anything is synced: it never gets past
\* validateConfig and no Project's pipeline is started.
C20_MissingConfigExits ==
  (~config.token \/ getBaseUrl(config) # "GITEA_BASE_URL") =>
    /\ phase \in {"init", "exited"}
    /\ \A s \in DOMAIN sweeps : sweeps[s].st # "sync"

\* pushChanges ended by throwing the error of the push it retried after a
\* successful `pull --rebase`
RetryFailed ==
  /\ pushPc = "failed"
  /\ Len(gitLog) >= 2
  /\ gitLog[Len(gitLog) - 1].args[1] = "pull"
  /\ gitLog[Len(gitLog) - 1].ok
  /\ ~gitLog[Len(gitLog)].ok

ForcePushed == \E i \in DOMAIN gitLog : "--force" \in Range(gitLog[i].args)

\* C11: when the push retried after fetch and rebase fails too, pushChanges
\* has run a force push before it reports a failure.
C11_ForcePushFallback == RetryFailed => ForcePushed

\* the last request sent to the API was answered with an error that
\* ensureGiteaRepository throws
EnsureFailed ==
  /\ apiLog # <<>>
  /\ LET last == apiLog[Len(apiLog)]
     IN  IF last.method = "GET" THEN last.status \notin {200, 404}
         ELSE last.status # 201

\* C14: a create request is issued iff the lookup answered 404, and when
\* the lookup fails otherwise, or the create request fails, the pass has
\* failed with no local version-control step executed.
C14_EnsureRepository ==
  /\ (\E i \in DOMAIN apiLog : apiLog[i].method = "POST") =>
       (apiLog[1].method = "GET" /\ apiLog[1].status = 404 /\ Len(apiLog) = 2)
  /\ (apiLog # <<>> /\ apiLog[1].status = 404 /\ syncPc # "create") => Len(apiLog) = 2
  /\ EnsureFailed =>
       /\ syncPc = "failed"
       /\ gitLog = <<>>
       /\ pushPc = "idle"
       /\ removed = {}

C14_Witness ==
  /\ Len(apiLog) = 2
  /\ EnsureFailed

Pruned == \E i \in DOMAIN gitLog : gitLog[i].args[1] \in {"reflog", "gc"}

\* C15: reflog expire and gc are run only in a full pass, only with a
\* prune age above zero, and only after a push of that pass succeeded.
C15_PruneOnlyAfterFullPublish ==
  \A i \in DOMAIN gitLog :
    gitLog[i].args[1] \in {"reflog", "gc"} =>
      /\ syncKind = "full"
      /\ pruneAgeDays > 0
      /\ pushErr = {}
      /\ \E j \in 1..(i - 1) : gitLog[j].args[1] = "push" /\ gitLog[j].ok

C15_Witness == Pruned /\ syncPc = "done"

\* C19: no pass of syncProject deletes a .git directory below the
\* Project's root.
C19_NestedGitKept == removed = {}

\* C12: the predicate the watcher was given answers true for every path
\* that has a .git segment, whatever patterns and .gitignore files were
\* loaded.
C12_GitAlwaysIgnored ==
  (lastPath # Null /\ Text.git \in Range(Split(lastPath))) => lastIgnored

\* C13: once the watcher has handled a change of the pattern file, its
\* predicate answers for every path what the patterns loaded last give.
C13_ReloadTakesEffect ==
  reloaded =>
    \A p \in EventPaths :
      Ignored(watcherPatterns, gitignoreFilters, p)
        = Ignored(buildChokidarIgnorePatterns(cachedIgnorePatterns), gitignoreFilters, p)

\* the segments a path or a root was made of
SegmentsOf(p) ==
  CHOOSE segs \in EventSegments \cup UNION {Range(rs) : rs \in RootSegments} : Join(segs) = p

IsPrefix(x, y) == Len(x) <= Len(y) /\ SubSeq(y, 1, Len(x)) = x

\* the top-level directory of root that path lies in, Null when hidden
TopLevel(root, path) ==
  IF path[Len(root) + 1][1] = "." THEN Null ELSE Join(SubSeq(path, 1, Len(root) + 1))

\* C16 as stated: result is null for a path outside all roots or equal to
\* a root, else the top-level directory (null when hidden) of the root the
\* path is under, the same for every such root.
ResolvesAsStated(p, result) ==
  LET path == SegmentsOf(p)
      under == {i \in DOMAIN projectRoots :
                  /\ IsPrefix(SegmentsOf(projectRoots[i]), path)
                  /\ SegmentsOf(projectRoots[i]) # path}
      isRoot == \E i \in DOMAIN projectRoots : SegmentsOf(projectRoots[i]) = path
  IN  IF under = {} \/ isRoot THEN result = Null
      ELSE \A i \in under : result = TopLevel(SegmentsOf(projectRoots[i]), path)

C16_ResolveTopLevel ==
  (lastPath \in EventPaths /\ ~lastIgnored) => ResolvesAsStated(lastPath, lastProject)

\* root holds path by the text of the two: they are equal, or path begins
\* with root followed by the separator (the filesystem root holds itself
\* only)
Holds(root, path) ==
  root = path \/ (root # <<>> /\ IsPrefix(root, path))

\* result is decided by the first configured root that holds the path:
\* null if there is none or the path is that root, else that root's
\* top-level directory the path lies in, null when its name starts with '.'
ResolvesByFirstRoot(p, result) ==
  LET path == SegmentsOf(p)
      holding == {i \in DOMAIN projectRoots : Holds(SegmentsOf(projectRoots[i]), path)}
  IN  IF holding = {} THEN result = Null
      ELSE LET root == SegmentsOf(projectRoots[Min(holding)])
           IN  IF root = path THEN result = Null ELSE result = TopLevel(root, path)

\* C16: for every path, and for the path of every event that reached
\* handleWatchEvent, resolveProjectFromPath decides by the first configured
\* root that holds the path.
C16_ResolveFirstRoot ==
  /\ \A p \in EventPaths :
       ResolvesByFirstRoot(p, resolveProjectFromPath(projectRoots, p))
  /\ (lastPath \in EventPaths /\ ~lastIgnored) =>
       ResolvesByFirstRoot(lastPath, lastProject)

C16_Witness ==
  /\ lastPath = Join(<<Text.r, Text.n>>)
  /\ lastPath \in Range(projectRoots)
  /\ lastProject = lastPath

\* no operation of the chain waits behind anything but a running one
ChainLive ==
  \A i \in DOMAIN ops :
    ops[i].st = "queued" => \E j \in 1..(i - 1) : ops[j].st = "running"

\* C21: in watch mode no step, whatever the outcome of the quick-sync, the
\* drain pass, the discovery or the sweep pass that ends in it, terminates
\* the process, leaves a quick-sync waiting behind a failed one, leaves the
\* drain guard set with no drain loop, or drops Projects a drain loop left.
C21_NoErrorEscapes ==
  [][phase = "watch" =>
       /\ phase' = "watch"
       /\ ChainLive'
       /\ queueProcessing' => drains' # <<>>
       /\ abandoned' = {}]_vars

\* in watch mode a background sweep goes on after a failed pass while a
\* quick-sync runs and a Project is pending with the timer armed
C21_Witness ==
  /\ phase = "watch"
  /\ \E s \in DOMAIN sweeps : sweeps[s].st = "sync" /\ sweeps[s].failed
  /\ \E i \in DOMAIN ops : i > 1 /\ ops[i].st = "running"
  /\ timers > 0

\* C22: at most one timer is armed, and flushTimer holds a handle exactly
\* when one is.
C22_SingleTimer == timers <= 1 /\ (flushTimer <=> timers = 1)

\* two Projects were marked and one timer is armed
C22_Witness == Len(pendingProjects) = 2 /\ timers = 1

\* the positions of a pass of syncProject, in the order of its statements
StepOrder ==
  <<"lookup", "create", "localrepo", "gitignore", "nested", "identity", "remote",
    "history", "stage", "status", "commit", "push", "publish", "done">>

Rank(pc) == CHOOSE i \in DOMAIN StepOrder : StepOrder[i] = pc

\* the steps a pass leaves out: the creation of a repository that exists,
\* the exclusion file of a repository that was not just initialised, the
\* commit of an unchanged tree
Optional == {"create", "gitignore", "commit"}

\* the git commands whose failure the pass only logs
OnlyLogged ==
  { <<"rev-parse", "--is-shallow-repository">>, <<"fetch", "--unshallow">>,
    <<"reflog", "expire">>, <<"gc">> }

\* the command a step has just run failed with an error the step throws
Thrown(log) ==
  /\ log # <<>>
  /\ ~log[Len(log)].ok
  /\ log[Len(log)].args \notin OnlyLogged
  /\ "nothing to commit" \notin log[Len(log)].msg

\* C23: a pass of syncProject moves through its steps in the order of
\* StepOrder, leaving out only optional steps; a step whose command fails with
\* a thrown error ends the pass, a failed pass does nothing more, and the
\* history step and the maintenance step never end the pass.
C23_StepOrder ==
  [][syncKind' = "full" =>
       /\ syncPc # "failed"
       /\ (syncPc \in Range(StepOrder) /\ syncPc' # syncPc) =>
             \/ syncPc' = "failed" /\ syncPc # "history"
             \/ /\ syncPc' \in Range(StepOrder)
                /\ Rank(syncPc') > Rank(syncPc)
                /\ \A k \in (Rank(syncPc) + 1)..(Rank(syncPc') - 1) :
                      StepOrder[k] \in Optional
       /\ (syncPc \in Range(StepOrder) /\ gitLog' # gitLog /\ pushPc = "idle"
             /\ Thrown(gitLog')) => syncPc' = "failed"
       /\ pushPc = "prune" => pushPc' = "done"
       /\ pushPc' = "prune" => (pushPc \in {"push", "retry"} /\ gitLog'[Len(gitLog')].ok)]_vars

\* a pass has completed although the deepening of the shallow clone and the
\* maintenance step both failed
C23_Witness ==
  /\ syncKind = "full"
  /\ syncPc = "done"
  /\ \E i, j \in DOMAIN gitLog :
       /\ i < j
       /\ gitLog[i].args = <<"fetch", "--unshallow">> /\ ~gitLog[i].ok
       /\ gitLog[j].args = <<"reflog", "expire">> /\ ~gitLog[j].ok

\* C24: the handler of an event on the ignore-configuration file first
\* reloads and starts no sweep; when the reload is done it calls runFullSync
\* and ends while that call is unsettled; neither step appends a quick-sync,
\* marks a Project pending or touches the debounce timer.
C24_ConfigEventFrame ==
  [][/\ (triggers' # triggers /\ calls' = calls) =>
          /\ reloading' = reloading + 1
          /\ UNCHANGED <<ops, pendingProjects, flushTimer, timers, sweeps, fullSyncPromise>>
     /\ reloading' < reloading =>
          /\ Len(calls') = Len(calls) + 1
          /\ ~calls'[Len(calls')].main
          /\ ~calls'[Len(calls')].settled
          /\ UNCHANGED <<ops, pendingProjects, flushTimer, timers>>]_vars

\* the handler of a configuration event is reloading, no sweep has been
\* called for since the startup sweep, and a Project marked by an earlier
\* event waits with the timer armed
C24_Witness ==
  /\ reloading = 1
  /\ triggers = 1
  /\ Len(calls) = 1
  /\ pendingProjects # <<>>
  /\ timers = 1

\* the last event reached the handler, lies in a Project, and the final
\* segment of its path is .gitignore
GitignoreEvent ==
  /\ lastPath \in EventPaths
  /\ ~lastIgnored
  /\ lastProject # Null
  /\ LET segs == FilterBoolean(Split(resolve(lastPath)))
     IN  segs # <<>> /\ segs[Len(segs)] = Text.gitignore

\* C25: for an event in a Project on a path whose final segment is
\* .gitignore the handler calls loadGitignoreFilters and nothing else: no
\* queueQuickSync, no scheduleProject, no runFullSync.
C25_GitignoreEventFrame == GitignoreEvent => lastCalls = <<"loadGitignoreFilters">>

\* a .gitignore below the top level of a Project was changed
C25_Witness ==
  GitignoreEvent /\ Len(FilterBoolean(Split(resolve(lastPath)))) >= 3

\* the pass has just run `git init` and it succeeded
JustInitialised ==
  /\ gitLog # <<>>
  /\ gitLog[Len(gitLog)].args = <<"init", "-b", "main">>
  /\ gitLog[Len(gitLog)].ok

\* C26: a pass changes the Project's .gitignore only by writing the default
\* file where there was none, and only as the step of a full pass that
\* follows its own successful `git init`.
C26_DefaultGitignoreOnlyOnInit ==
  [][(syncPc # "idle" /\ gitignoreFile' # gitignoreFile) =>
       /\ gitignoreFile = "none"
       /\ gitignoreFile' = "default"
       /\ syncKind = "full"
       /\ syncPc = "gitignore"
       /\ JustInitialised]_vars

\* a pass that initialised the repository wrote the default file and completed
C26_Witness == gitignoreFile = "default" /\ syncPc = "done" /\ syncKind = "full"

\* C27: when the flatten step of a pass returns, no .git directory is left
\* below a subdirectory of the Project, and the step leaves the Project's
\* own .git directory in place.
C27_FlattenRemovesAllNested ==
  [][(syncPc = "nested" /\ syncPc' = "identity") =>
       /\ gitDirs' \subseteq {1}
       /\ 1 \in gitDirs => 1 \in gitDirs'
       /\ 1 \notin removed']_vars

IsCommit(e) == e.args = <<"commit", "-m">>

IsPush(e) == e.args # <<>> /\ e.args[1] = "push"

\* the pass has created a commit
CommitMade(log) == \E i \in DOMAIN log : IsCommit(log[i]) /\ log[i].ok

\* the local branch holds a commit of the pass that no push of the pass has
\* delivered
Unpushed(log) ==
  \E i \in DOMAIN log :
     /\ IsCommit(log[i]) /\ log[i].ok
     /\ \A j \in (i + 1)..Len(log) : ~(IsPush(log[j]) /\ log[j].ok)

C29_QuickSyncSteps ==
  [][syncKind' = "quick" =>
       /\ syncPc = "qstage" =>
             /\ gitLog'[Len(gitLog')].args =
                  IF event \in {"unlink", "unlinkDir"} THEN <<"rm", "-rf", "f">>
                  ELSE <<"add", "f">>
             /\ ~gitLog'[Len(gitLog')].ok => syncPc' = "done"
       /\ (gitLog' # <<>> /\ ~gitLog'[1].ok) => Len(gitLog') = 1
       /\ (gitLog' # gitLog /\ IsCommit(gitLog'[Len(gitLog')])) => indexDiffers
       /\ (pushPc = "idle" /\ pushPc' # "idle") =>
             (gitLog # <<>> /\ IsCommit(gitLog[Len(gitLog)]) /\ gitLog[Len(gitLog)].ok)]_vars

\* the quick-sync of a deleted file removed the path from the index,
\* committed and published
C29_Witness ==
  /\ syncKind = "quick"
  /\ event = "unlink"
  /\ syncPc = "done"
  /\ gitLog # <<>> /\ gitLog[1].args = <<"rm", "-rf", "f">>
  /\ \E i, j \in DOMAIN gitLog :
       i < j /\ IsCommit(gitLog[i]) /\ gitLog[i].ok /\ IsPush(gitLog[j]) /\ gitLog[j].ok

CarriesSetUpstream(e) == "--set-upstream" \in Range(e.args)

\* C30: a push issued by pushChanges, the retried one included, carries
\* --set-upstream exactly when the branch tracks no upstream, and when
\* pushChanges has published the branch tracks one.
C30_SetUpstream ==
  [][/\ (gitLog' # gitLog /\ IsPush(gitLog'[Len(gitLog')])) =>
          (CarriesSetUpstream(gitLog'[Len(gitLog')]) <=> ~tracking)
     /\ pushPc' \in {"prune", "done"} => tracking']_vars

\* the first push of a branch without upstream was rejected, the push
\* retried after the rebase carried the flag and succeeded
C30_Witness ==
  /\ pushPc = "done"
  /\ ~hasUpstream
  /\ tracking
  /\ \E i, j \in DOMAIN gitLog :
       /\ i < j
       /\ IsPush(gitLog[i]) /\ CarriesSetUpstream(gitLog[i]) /\ ~gitLog[i].ok
       /\ IsPush(gitLog[j]) /\ CarriesSetUpstream(gitLog[j]) /\ gitLog[j].ok

\* C31: whenever a Project is pending, the debounce timer is armed or a
\* drain loop is running.
C31_PendingIsScheduled ==
  pendingProjects # <<>> => (timers > 0 \/ drains # <<>>)

\* a Project is pending with no timer armed: the running drain loop is all
\* that will take it
C31_Witness ==
  pendingProjects # <<>> /\ timers = 0 /\ Len(drains) = 1 /\ queueProcessing

\* a drain loop is suspended in syncProject(p)
DrainPassRunning(p) == \E k \in DOMAIN drains : drains[k] = p

\* a sweep is suspended in syncProject(p)
SweepPassRunning(p) ==
  \E s \in DOMAIN sweeps : sweeps[s].st = "sync" /\ Head(sweeps[s].todo) = p

\* C32: a pass of syncProject started by the drain and one started by a
\* sweep never run at the same time on the same Project.
C32_NoOverlappingPasses ==
  \A p \in Projects : ~(DrainPassRunning(p) /\ SweepPassRunning(p))

\* C33: fullSyncPromise is set exactly while a sweep is active and
\* queueProcessing exactly while a drain loop is; a call of runFullSync made
\* when no sweep is active starts a new sweep, and a timer expiry that finds
\* Projects pending and no drain loop starts one.
C33_GuardsReleased ==
  [][/\ (fullSyncPromise' # 0) <=> (\E s \in DOMAIN sweeps' : SweepActive(s)')
     /\ queueProcessing' <=> (drains' # <<>>)
     /\ (Len(calls') > Len(calls) /\ ~\E s \in DOMAIN sweeps : SweepActive(s)) =>
          (Len(sweeps') = Len(sweeps) + 1 /\ sweeps'[Len(sweeps')].st = "discover")
     /\ (expiries' > expiries /\ drains = <<>> /\ pendingProjects # <<>>) =>
          drains' # <<>>]_vars

\* in watch mode a sweep ended with an error and a later trigger has
\* started a new sweep
C33_Witness ==
  /\ phase = "watch"
  /\ \E s, t \in DOMAIN sweeps : s < t /\ sweeps[s].st = "rejected" /\ SweepActive(t)

\* call c of runFullSync created the sweep it awaits (it did not join one
\* that was in flight)
StartedSweep(c) == \A d \in 1..(c - 1) : calls[d].sweep # calls[c].sweep

\* C34: when the runFullSync call of a trigger has settled, a sweep has
\* been started at or after that trigger.
C34_TriggerGetsFreshSweep ==
  \A c \in DOMAIN calls :
     calls[c].settled => \E d \in DOMAIN calls : d >= c /\ StartedSweep(d)
\* C35: the commit a quick-sync makes contains changes of the event's own
\* path f only, whatever else the index holds when `git commit` runs.
C35_QuickCommitOwnPathOnly ==
  syncKind = "quick" => committed \subseteq {"f"}

\* the pass has run a push that succeeded
Pushed(log) == \E i \in DOMAIN log : IsPush(log[i]) /\ log[i].ok

\* C36: a pass of syncProject goes from the status check on to pushChanges
\* also when it has nothing to commit; a pass that completes has run a push
\* that succeeded; and after a push that succeeded the local branch holds
\* no commit the remote branch lacks, so a commit an earlier pass left
\* unpublished is published by a pass that itself made no commit.
C36_PublishWithoutCommit ==
  [][syncKind' = "full" =>
       /\ (syncPc = "status" /\ gitLog'[Len(gitLog')].ok) => syncPc' \in {"commit", "push"}
       /\ (syncPc = "push") => (syncPc' = "publish" /\ pushPc' = "branch")
       /\ syncPc' = "done" => (Pushed(gitLog') /\ ~ahead')
       /\ (pushPc \in {"push", "retry"} /\ gitLog'[Len(gitLog')].ok) => ~ahead']_vars

\* a pass that attempted no commit has fetched and is about to push, while
\* the local branch holds a commit an earlier pass left unpublished
C36_Witness ==
  /\ syncKind = "full"
  /\ syncPc = "publish"
  /\ pushPc = "push"
  /\ ~\E i \in DOMAIN gitLog : IsCommit(gitLog[i])
  /\ ahead
\* the names that are files in the watched trees; every other name is a
\* directory
FileNames == {Text.f, Text.log, Text.env, Text.gitignore}

\* the entry at p is a file that lies directly in a configured root
LooseFile(roots, p) ==
  /\ basename(p) \in FileNames
  /\ \E i \in DOMAIN roots : p = pathJoin(roots[i], basename(p))

\* C37: an event for a file that lies directly in a configured root is
\* discarded: it resolves to no Project and handleWatchEvent calls neither
\* queueQuickSync nor scheduleProject for it.
C37_LooseFileDiscarded ==
  LooseFile(projectRoots, lastPath) => (lastProject = Null /\ lastCalls = <<>>)
\* the .gitignore of a Project on disk excludes the path
ExcludedOnDisk(p) ==
  \E flt \in DiskGitignores :
     /\ startsWith(p, flt.project \o <<Sep>>)
     /\ Ignores(flt.names, relative(flt.project, p))

\* C38: while a call of loadGitignoreFilters is under way the `ignored`
\* function answers true for every path a .gitignore on disk excludes; and
\* once every call has settled there is a filter for each Project that has
\* a .gitignore.
C38_ReloadKeepsIgnoring ==
  [][/\ ( /\ \E k \in DOMAIN loads : ~LoadSettled(loads[k])
          /\ loads' = loads
          /\ gitignoreFilters' = gitignoreFilters
          /\ ExcludedOnDisk(lastPath') ) => lastIgnored'
     /\ (loads' # <<>> /\ \A k \in DOMAIN loads' : LoadSettled(loads'[k])) =>
          gitignoreFilters' = DiskGitignores]_vars
\* the step is the passage of one tick
TickPassed ==
  \A p \in Projects :
     pendingSyncs'[p] = IF pendingSyncs[p] = NoTimer THEN NoTimer ELSE pendingSyncs[p] - 1

\* C39: in the simple variant no Project has two syncProject calls under
\* way at once, and a step that is not the passage of time changes the
\* timer of one Project at most.
C39_SimpleNoOverlap ==
  [][/\ \A p \in Projects : syncing'[p] <= 1
     /\ TickPassed \/ \A p, q \in Projects :
          (p # q /\ pendingSyncs'[p] # pendingSyncs[p]) => pendingSyncs'[q] = pendingSyncs[q]]_vars
\* the part of p below the configured root that holds it
BelowRoot(roots, p) ==
  relative(roots[Min({i \in DOMAIN roots : UnderRoot(p, roots[i])})], p)

\* C40: a path under a configured root is ignored only when a pattern
\* matches the part of the path below the root, or the .gitignore filter of
\* its Project excludes it.
C40_IgnoreBelowRootOnly ==
  [][( /\ watchPc = "watching"
       /\ \E i \in DOMAIN projectRoots : UnderRoot(lastPath', projectRoots[i])
       /\ lastIgnored' ) =>
        \/ \E k \in DOMAIN watcherPatterns :
              Test(watcherPatterns[k], BelowRoot(projectRoots, lastPath'))
        \/ Ignored(<<>>, gitignoreFilters, lastPath')]_vars
====
